---- MODULE Spec2Model ----
(***************************************************************************)
(* Model of uproot/_connect/to_numba.py: the expression compiler           *)
(* (string2fcn), the chain of resolver steps (ChainStep, Define,           *)
(* ChainSource) and the chunked iteration driver (ChainStep.iterate, a     *)
(* Python generator).                                                      *)
(*                                                                         *)
(* Python values are modelled as records of one shape per sort, so that    *)
(* any two values of a sort can be compared:                               *)
(*   array/value : [kind, name, data, args]                                *)
(*   statement   : [type, target, op, loads]                               *)
(*   function    : [name, params, locals, body, raisesOn]                  *)
(*   object      : [kind, str, fn]       (an argument of unknown type)     *)
(***************************************************************************)
EXTENDS Integers, Sequences, FiniteSets, TLC

\* ---------------------------------------------------------------- bounds
\* entries held by the tree (tree.numentries ranges over 0..MaxEntries)
MaxEntries == 3
\* largest entrystepsize passed to iterate
MaxStep == 2
\* largest number of Define steps stacked on the one TTreeMethods_numba.define made
MaxDefines == 1

\* most requirements one followed call of _compilefcns resolves
MaxRequests == 2

\* ------------------------------------------------------------ sequences
Range(s) == {s[j] : j \in DOMAIN s}

Min(a, b) == IF a <= b THEN a ELSE b

\* position of the first occurrence of v in s, 0 when absent
IndexOf(s, v) ==
    IF v \in Range(s) THEN CHOOSE j \in DOMAIN s : s[j] = v /\ \A h \in 1..(j - 1) : s[h] # v
    ELSE 0

\* s without repeated elements, first occurrences kept in order
RECURSIVE Dedup(_)
Dedup(s) ==
    IF s = <<>> THEN <<>>
    ELSE LET front == Dedup(SubSeq(s, 1, Len(s) - 1))
             last == s[Len(s)]
         IN  IF last \in Range(front) THEN front ELSE Append(front, last)

\* ------------------------------------------------------------ identifiers
\* Python's None where a name is expected (entryvar=None)
None == "None"

\* the identifiers used in expressions, in the order sorted() gives them
NameOrder == <<"a", "b", "c", "i", "r", "x", "y">>

Names == Range(NameOrder)

\* sorted(set) for a set of identifiers
RECURSIVE SortedNames(_)
SortedNames(S) ==
    IF S = {} THEN <<>>
    ELSE LET first == CHOOSE n \in S : \A m \in S : IndexOf(NameOrder, n) <= IndexOf(NameOrder, m)
         IN  <<first>> \o SortedNames(S \ {first})

\* ------------------------------------------------------------------ values
Value(kind, name, data, args) == [kind |-> kind, name |-> name, data |-> data, args |-> args]

\* Python's None as a result
NoneValue == Value("None", "", <<>>, <<>>)

\* an exception of the given type in flight (what sys.exc_info() captures)
Raise(type) == Value("raise", type, <<>>, <<>>)

IsRaise(v) == v.kind = "raise"

\* --------------------------------------------------------------- ast.parse
Stmt(type, target, op, loads) == [type |-> type, target |-> target, op |-> op, loads |-> loads]

\* the texts given as expressions or names, and what ast.parse makes of them:
\* the statement list (Module.body); each statement keeps the names it
\* loads in the order the walk of string2fcn meets them
SyntaxErrorBody == <<Stmt("SyntaxError", "", "", <<>>)>>

ast_parse(string) ==
    CASE string = "x"            -> <<Stmt("Expr", "", "Name", <<"x">>)>>
      [] string = "i"            -> <<Stmt("Expr", "", "Name", <<"i">>)>>
      [] string = "a"            -> <<Stmt("Expr", "", "Name", <<"a">>)>>
      [] string = "b"            -> <<Stmt("Expr", "", "Name", <<"b">>)>>
      [] string = "y"            -> <<Stmt("Expr", "", "Name", <<"y">>)>>
      [] string = "x + 1"        -> <<Stmt("Expr", "", "+1", <<"x">>)>>
      [] string = "x - 1"        -> <<Stmt("Expr", "", "-1", <<"x">>)>>
      [] string = "x * 2"        -> <<Stmt("Expr", "", "*2", <<"x">>)>>
      [] string = "r + 1"        -> <<Stmt("Expr", "", "+1", <<"r">>)>>
      [] string = "c + 1"        -> <<Stmt("Expr", "", "+1", <<"c">>)>>
      [] string = "y + 1"        -> <<Stmt("Expr", "", "+1", <<"y">>)>>
      [] string = "x - i"        -> <<Stmt("Expr", "", "-", <<"x", "i">>)>>
      [] string = "i - c"        -> <<Stmt("Expr", "", "-", <<"i", "c">>)>>
      [] string = "x = 2\nx + 1" -> <<Stmt("Assign", "x", "2", <<>>), Stmt("Expr", "", "+1", <<"x">>)>>
      [] string = "x = x + 1\nx" -> <<Stmt("Assign", "x", "+1", <<"x">>), Stmt("Expr", "", "Name", <<"x">>)>>
      [] string = "y = x\ny"     -> <<Stmt("Assign", "y", "Name", <<"x">>), Stmt("Expr", "", "Name", <<"y">>)>>
      [] string = ""             -> <<>>
      [] string = "def f(): pass" -> <<Stmt("FunctionDef", "f", "", <<>>)>>
      [] OTHER                   -> SyntaxErrorBody

\* ------------------------------------------------------------- string2fcn
Fcn(name, params, locals, body, raisesOn) ==
    [name |-> name, params |-> params, locals |-> locals, body |-> body, raisesOn |-> raisesOn]

NoFcn == Fcn("", <<>>, <<>>, <<>>, {})

\* recurse(body): the walk visits an Assign's targets before its value
\* (ast.Assign._fields = targets, value), so the store is recorded first
RECURSIVE recurse(_, _)
recurse(body, sym) ==
    IF body = <<>> THEN sym
    ELSE LET node == Head(body)
             stored == IF node.type = "Assign"
                       THEN [sym EXCEPT !.outs = Dedup(Append(@, node.target))]
                       ELSE sym
             loaded == [stored EXCEPT !.ins = @ \cup {n \in Range(node.loads) : n \notin Range(stored.outs)}]
         IN  recurse(Tail(body), loaded)

\* the symbols of a text: insymbols (a set) and the names stored, in order
Symbols(body) == recurse(body, [ins |-> {}, outs |-> <<>>])

\* body[-1] = ast.Return(body[-1].value) when the last statement is an Expr
ReturnLast(body) ==
    IF body # <<>> /\ body[Len(body)].type = "Expr"
    THEN [body EXCEPT ![Len(body)].type = "Return"]
    ELSE body

\* def fcn(<sorted(insymbols)>): <body>; its other local variables are the
\* names the text assigns
MakeFcn(body, sym) ==
    Fcn("fcn", SortedNames(sym.ins), SelectSeq(sym.outs, LAMBDA n : n \notin sym.ins), ReturnLast(body), {})

\* string2fcn on the parsed text: [exc, fcn]
string2fcn_body(body) ==
    IF body = SyntaxErrorBody THEN [exc |-> "SyntaxError", fcn |-> NoFcn]
    ELSE IF \E j \in DOMAIN body : body[j].type = "FunctionDef" THEN [exc |-> "TypeError", fcn |-> NoFcn]
    ELSE IF Len(body) = 0 THEN [exc |-> "TypeError", fcn |-> NoFcn]
    ELSE [exc |-> "", fcn |-> MakeFcn(body, Symbols(body))]

\* string2fcn(string): [exc, fcn]
string2fcn(string) == string2fcn_body(ast_parse(string))

\* fcn.__code__.co_varnames: the parameters, then the other local variables
co_varnames(fcn) == fcn.params \o fcn.locals

\* ---------------------------------------------------- calling a function
Unbound == Value("unbound", "", <<>>, <<>>)

\* the value of one statement's expression under the bindings env
Term(node, env) ==
    LET vals == [j \in DOMAIN node.loads |-> env[node.loads[j]]]
    IN  IF \E j \in DOMAIN vals : vals[j] = Unbound THEN Raise("UnboundLocalError")
        ELSE IF node.op = "Name" THEN vals[1]
        ELSE Value("op", node.op, <<>>, vals)

\* running the statements of a function made by string2fcn
RECURSIVE Exec(_, _)
Exec(body, env) ==
    IF body = <<>> THEN NoneValue
    ELSE LET node == Head(body)
             term == Term(node, env)
         IN  IF IsRaise(term) THEN term
             ELSE IF node.type = "Return" THEN term
             ELSE IF node.type = "Assign" THEN Exec(Tail(body), [env EXCEPT ![node.target] = term])
             ELSE Exec(Tail(body), env)

\* fcn(*args): Python checks the number of arguments; a function given by
\* the caller (no body here) is opaque, and raises on the chunks that hold
\* an entry of raisesOn
CallFcn(fcn, args) ==
    IF Len(args) # Len(fcn.params) THEN Raise("TypeError")
    ELSE IF fcn.body = <<>>
         THEN IF \E j \in DOMAIN args : Range(args[j].data) \cap fcn.raisesOn # {}
              THEN Raise("ZeroDivisionError")
              ELSE Value("call", fcn.name, <<>>, args)
    ELSE Exec(fcn.body,
              [n \in Names |-> IF n \in Range(fcn.params) THEN args[IndexOf(fcn.params, n)] ELSE Unbound])

\* ------------------------------------------------- objects given as exprs
StrObj(s) == [kind |-> "str", str |-> s, fn |-> NoFcn]

FunObj(f) == [kind |-> "function", str |-> "", fn |-> f]

IntObj == [kind |-> "int", str |-> "", fn |-> NoFcn]

\* isinstance(x, parsable) or (callable(x) and hasattr(x, "__code__"))
IsExpression(x) == x.kind = "str" \/ x.kind = "function"

\* the exprs argument: a single object, a dict (items with names) or a list
Exprs(shape, items) == [shape |-> shape, items |-> items]

Item(name, obj) == [name |-> name, obj |-> obj]

\* ----------------------------------------------------------------- chain
\* a step of the chain: chain[1] is the ChainSource, chain[n].previous is
\* chain[n - 1]; defs holds a Define's fcn and requirements tables
Step(type, defs) == [type |-> type, defs |-> defs]

Def(name, fcn, requirements) == [name |-> name, fcn |-> fcn, requirements |-> requirements]

Defines(step, name) == \E j \in DOMAIN step.defs : step.defs[j].name = name

DefOf(step, name) == step.defs[CHOOSE j \in DOMAIN step.defs : step.defs[j].name = name]

\* self._compilefcn is an attribute that only ChainSource.__init__ sets
HasCompilefcn(step) == step.type = "ChainSource"

\* the first line of _tofcn: a text is made a function: [exc, fcn]
AsFcn(expr) == IF expr.kind = "str" THEN string2fcn(expr.str) ELSE [exc |-> "", fcn |-> expr.fn]

\* its second line: self._compilefcn(expr), expr.__code__.co_varnames
Compilefcn(step, parsed) ==
    IF parsed.exc # "" THEN [exc |-> parsed.exc, fcn |-> NoFcn, requirements |-> <<>>]
    ELSE IF ~HasCompilefcn(step) THEN [exc |-> "AttributeError", fcn |-> NoFcn, requirements |-> <<>>]
    ELSE [exc |-> "", fcn |-> parsed.fcn, requirements |-> co_varnames(parsed.fcn)]

\* ChainStep._tofcn: [exc, fcn, requirements]
ChainStep_tofcn(step, expr) == Compilefcn(step, AsFcn(expr))

\* the position of the first element that has an exception, 0 when none has
FirstExcAt(rs) ==
    IF \E j \in DOMAIN rs : rs[j].exc # ""
    THEN CHOOSE j \in DOMAIN rs : rs[j].exc # "" /\ \A h \in 1..(j - 1) : rs[h].exc = ""
    ELSE 0

\* the exception of the first element that has one, "" when none has
ExcAt(rs, j) == IF j = 0 THEN "" ELSE rs[j].exc

FirstExc(rs) == ExcAt(rs, FirstExcAt(rs))

\* one (fcn, requirements, cacheid, dictname) tuple
FcnTuple(r, cacheid, dictname) ==
    [fcn |-> r.fcn, requirements |-> r.requirements, cacheid |-> cacheid, dictname |-> dictname]

\* the name a single or listed expression goes by: the text, or __name__
OwnName(obj) == IF obj.kind = "str" THEN obj.str ELSE obj.fn.name

\* the branch _tofcns takes: one expression, a dict of expressions, or
\* anything else, which is iterated (a dict gives its keys) and asserted
Branch(exprs) ==
    IF exprs.shape = "single" /\ IsExpression(exprs.items[1].obj) THEN "single"
    ELSE IF exprs.shape = "dict" /\ \A j \in DOMAIN exprs.items : IsExpression(exprs.items[j].obj) THEN "dict"
    ELSE IF exprs.shape = "single" THEN "TypeError"
    ELSE IF exprs.shape = "list" /\ \E j \in DOMAIN exprs.items : ~IsExpression(exprs.items[j].obj) THEN "TypeError"
    ELSE "iterable"

\* the expressions that branch compiles
Used(exprs, branch) ==
    [j \in DOMAIN exprs.items |->
        IF exprs.shape = "dict" /\ branch = "iterable" THEN StrObj(exprs.items[j].name) ELSE exprs.items[j].obj]

\* the tuples of the expressions used, given what _tofcn made of each
FcnTuples(exprs, branch, used, rs, exc) ==
    IF exc # "" THEN [exc |-> exc, fcns |-> <<>>]
    ELSE [exc |-> "",
          fcns |-> [j \in DOMAIN used |->
                       FcnTuple(rs[j], used[j], IF branch = "dict" THEN exprs.items[j].name ELSE OwnName(used[j]))]]

TofcnEach(step, used) == [j \in DOMAIN used |-> ChainStep_tofcn(step, used[j])]

TofcnsOf(step, exprs, branch, used, rs) == FcnTuples(exprs, branch, used, rs, FirstExc(rs))

TofcnsUsed(step, exprs, branch, used) == TofcnsOf(step, exprs, branch, used, TofcnEach(step, used))

TofcnsBranch(step, exprs, branch) ==
    IF branch = "TypeError" THEN [exc |-> "TypeError", fcns |-> <<>>]
    ELSE TofcnsUsed(step, exprs, branch, Used(exprs, branch))

\* ChainStep._tofcns: [exc, fcns]
ChainStep_tofcns(step, exprs) == TofcnsBranch(step, exprs, Branch(exprs))

\* ---------------------------------------------------- _satisfy / _argfcn
Acc(branchnames, entryvars) == [branchnames |-> branchnames, entryvars |-> entryvars]

\* mutant: the aliases are not looked up
AliasGet_NoAlias(aliases, requirement) == requirement

\* self.aliases.get(requirement, requirement)
AliasGet(aliases, requirement) ==
    IF \E p \in aliases : p[1] = requirement
    THEN (CHOOSE p \in aliases : p[1] = requirement)[2]
    ELSE requirement

\* mutant: the branch name is appended whether or not the list has it
ChainSource_satisfy_Append(src, requirement, acc) ==
    IF requirement = src.entryvar THEN [acc EXCEPT !.entryvars = @ \cup {None}]
    ELSE [acc EXCEPT !.branchnames = Append(@, AliasGet(src.aliases, requirement))]

\* ChainSource._satisfy
ChainSource_satisfy(src, requirement, acc) ==
    IF requirement = src.entryvar THEN [acc EXCEPT !.entryvars = @ \cup {None}]
    ELSE LET branchname == AliasGet(src.aliases, requirement)
         IN  IF branchname \in Range(acc.branchnames) THEN acc
             ELSE [acc EXCEPT !.branchnames = Append(@, branchname)]

RECURSIVE satisfy(_, _, _, _, _)
RECURSIVE satisfyAll(_, _, _, _, _)

\* for req in requirements: chain[n]._satisfy(req, branchnames, entryvars)
satisfyAll(src, chain, n, requirements, acc) ==
    IF requirements = <<>> THEN acc
    ELSE satisfyAll(src, chain, n, Tail(requirements), satisfy(src, chain, n, Head(requirements), acc))

\* mutant: a name the step defines asks nothing of the previous step
Define_satisfy_Nothing(src, chain, n, requirement, acc) ==
    IF Defines(chain[n], requirement) THEN acc
    ELSE satisfy(src, chain, n - 1, requirement, acc)

\* mutant: a name the step defines is passed on to the previous step as well
Define_satisfy_AlsoPrevious(src, chain, n, requirement, acc) ==
    IF Defines(chain[n], requirement)
    THEN satisfy(src, chain, n - 1, requirement,
                 satisfyAll(src, chain, n - 1, DefOf(chain[n], requirement).requirements, acc))
    ELSE satisfy(src, chain, n - 1, requirement, acc)

\* Define._satisfy
Define_satisfy(src, chain, n, requirement, acc) ==
    IF Defines(chain[n], requirement)
    THEN satisfyAll(src, chain, n - 1, DefOf(chain[n], requirement).requirements, acc)
    ELSE satisfy(src, chain, n - 1, requirement, acc)

\* chain[n]._satisfy(requirement, branchnames, entryvars), by the step's class
satisfy(src, chain, n, requirement, acc) ==
    CASE chain[n].type = "ChainSource" -> ChainSource_satisfy(src, requirement, acc)
      [] chain[n].type = "Define"      -> Define_satisfy(src, chain, n, requirement, acc)
      [] OTHER                         -> satisfy(src, chain, n - 1, requirement, acc)

\* what _argfcn returns: [exc, index]; the function is lambda arrays: arrays[index]
Argfcn(exc, index) == [exc |-> exc, index |-> index]

\* mutant: the entry index is read at the first position
ChainSource_argfcn_EntryFirst(src, requirement, branchnames) ==
    IF requirement = src.entryvar THEN Argfcn("", 0)
    ELSE LET branchname == AliasGet(src.aliases, requirement)
         IN  IF branchname \in Range(branchnames)
             THEN Argfcn("", IndexOf(branchnames, branchname) - 1)
             ELSE Argfcn("ValueError", 0)

\* ChainSource._argfcn; list.index raises ValueError for a missing name
ChainSource_argfcn(src, requirement, branchnames) ==
    IF requirement = src.entryvar THEN Argfcn("", Len(branchnames))
    ELSE LET branchname == AliasGet(src.aliases, requirement)
         IN  IF branchname \in Range(branchnames)
             THEN Argfcn("", IndexOf(branchnames, branchname) - 1)
             ELSE Argfcn("ValueError", 0)

RECURSIVE argfcn(_, _, _, _, _)

\* Define._argfcn: for a name of its own it reads the names fcn and
\* dictname, which no scope defines, before anything else
Define_argfcn(src, chain, n, requirement, branchnames) ==
    IF Defines(chain[n], requirement) THEN Argfcn("NameError", 0)
    ELSE argfcn(src, chain, n - 1, requirement, branchnames)

\* chain[n]._argfcn(requirement, branchnames), by the step's class
argfcn(src, chain, n, requirement, branchnames) ==
    CASE chain[n].type = "ChainSource" -> ChainSource_argfcn(src, requirement, branchnames)
      [] chain[n].type = "Define"      -> Define_argfcn(src, chain, n, requirement, branchnames)
      [] OTHER                         -> argfcn(src, chain, n - 1, requirement, branchnames)

\* all requirements of all fcns, in the order _compilefcns satisfies them
RECURSIVE AllRequirements(_)
AllRequirements(fcns) ==
    IF fcns = <<>> THEN <<>> ELSE Head(fcns).requirements \o AllRequirements(Tail(fcns))

\* the second loop of _compilefcns: the _argfcn of every requirement
ArgfcnsOf(src, chain, n, fcns, branchnames) ==
    [i \in DOMAIN fcns |->
        [j \in DOMAIN fcns[i].requirements |-> argfcn(src, chain, n, fcns[i].requirements[j], branchnames)]]

\* what _compilefcns returns, given the accumulated lists and the argfcns; a
\* compiled function is cfcn(arrays) = fcn(arg0(arrays), arg1(arrays), ...)
Compiled(fcns, acc, argfcns, exc) ==
    [exc |-> exc,
     compiled |-> IF exc # "" THEN <<>> ELSE [i \in DOMAIN fcns |-> [fcn |-> fcns[i].fcn, argfcns |-> argfcns[i]]],
     branchnames |-> acc.branchnames,
     entryvars |-> acc.entryvars]

CompiledWith(fcns, acc, argfcns) ==
    Compiled(fcns, acc, argfcns, FirstExc([i \in DOMAIN fcns |-> [exc |-> FirstExc(argfcns[i])]]))

CompiledFrom(src, chain, n, fcns, acc) ==
    CompiledWith(fcns, acc, ArgfcnsOf(src, chain, n, fcns, acc.branchnames))

\* ChainStep._compilefcns: [exc, compiled, branchnames, entryvars]
ChainStep_compilefcns(src, chain, n, fcns) ==
    CompiledFrom(src, chain, n, fcns, satisfyAll(src, chain, n, AllRequirements(fcns), Acc(<<>>, {})))

\* arg(arrays) = arrays[index]
CallArgfcn(a, arrays) ==
    IF a.index + 1 \in DOMAIN arrays THEN arrays[a.index + 1] ELSE Raise("IndexError")

\* cfcn(arrays)
CallWith(fcn, args) ==
    IF \E j \in DOMAIN args : IsRaise(args[j])
    THEN args[CHOOSE j \in DOMAIN args : IsRaise(args[j]) /\ \A h \in 1..(j - 1) : ~IsRaise(args[h])]
    ELSE CallFcn(fcn, args)

CallCompiled(c, arrays) == CallWith(c.fcn, [j \in DOMAIN c.argfcns |-> CallArgfcn(c.argfcns[j], arrays)])

\* ChainStep._isidentifier
ChainStep_isidentifier(dictname) ==
    LET x == ast_parse(dictname)
    IN  x # SyntaxErrorBody /\ Len(x) = 1 /\ x[1].type = "Expr" /\ x[1].op = "Name"

\* ------------------------------------------------------------ the source
\* the arguments ChainSource.__init__ keeps (entrystop is left at None, the
\* end of the tree; the caches and the read executor do not act here)
Source(entrystepsize, entrystart, aliases, entryvar) ==
    [entrystepsize |-> entrystepsize, entrystart |-> entrystart, aliases |-> aliases, entryvar |-> entryvar]

NoSource == Source(0, 0, {}, None)

\* the branches of the tree
TreeBranches == {"c", "x", "y"}

\* numpy.arange(entrystart, entrystop)
Arange(start, stop) == [j \in 1..(stop - start) |-> start + j - 1]

\* tree.iterate(entrystepsize, branches, reportentries=True, entrystart, ...):
\* how many (entrystart, entrystop, arrays) it yields over a tree of total entries
tree_numchunks(src, total) ==
    IF total <= src.entrystart THEN 0
    ELSE ((total - src.entrystart) + src.entrystepsize - 1) \div src.entrystepsize

\* the entry range of its j-th one
tree_entrystart(src, j) == src.entrystart + (j - 1) * src.entrystepsize

tree_entrystop(src, total, j) == Min(tree_entrystart(src, j) + src.entrystepsize, total)

\* the arrays of its j-th one: one per requested branch, in the order requested
tree_arrays(src, total, branchnames, j) ==
    [b \in DOMAIN branchnames |->
        Value("branch", branchnames[b], Arange(tree_entrystart(src, j), tree_entrystop(src, total, j)), <<>>)]

\* ChainSource._iterate: the j-th list of arrays it yields
ChainSource_iterate(src, total, branchnames, hasentryvar, j) ==
    IF hasentryvar
    THEN Append(tree_arrays(src, total, branchnames, j),
                Value("arange", "", Arange(tree_entrystart(src, j), tree_entrystop(src, total, j)), <<>>))
    ELSE tree_arrays(src, total, branchnames, j)

\* ---------------------------------------------------------------- finish
Record(type, names, values) == [type |-> type, names |-> names, values |-> values]

\* position of the last occurrence of v in s
LastIndexOf(s, v) == CHOOSE j \in DOMAIN s : s[j] = v /\ \A h \in (j + 1)..Len(s) : s[h] # v

\* mutant: the names are zipped with the results in reverse order
finish_Reversed(outputtype, dictnames, results) ==
    IF outputtype = "dict"
    THEN Record("dict", Dedup(dictnames), [j \in DOMAIN Dedup(dictnames) |-> results[Len(results) + 1 - j]])
    ELSE IF outputtype = "namedtuple" THEN Record("Arrays", dictnames, results)
    ELSE Record(outputtype, <<>>, results)

\* finish(results), by outputtype: a dict keeps one item per key, with the
\* value zipped last; the other kinds keep the results in order
finish(outputtype, dictnames, results) ==
    IF outputtype = "dict"
    THEN LET keys == Dedup(dictnames)
         IN  Record("dict", keys, [j \in DOMAIN keys |-> results[LastIndexOf(dictnames, keys[j])]])
    ELSE IF outputtype = "namedtuple" THEN Record("Arrays", dictnames, results)
    ELSE Record(outputtype, <<>>, results)

\* ----------------------------------------------------------------- state
VARIABLES
    numentries,  \* the entries of the tree
    source,      \* the ChainSource's fields
    chain,       \* the steps, the ChainSource first
    defineArg,   \* the exprs of the last call of define
    defineExc,   \* the exception a call of define raised, "" if none (the caller stops at it)
    args,        \* the arguments of the call of iterate
    gen,         \* the generator: none, created, running, suspended, finished, raised
    pc,          \* the line the generator is at
    frame,       \* the generator's local variables
    delivered,   \* how many chunks the source has yielded
    tasks,       \* the calls of calculate given to calcexecutor.map
    yielded,     \* the records handed to the consumer, in order
    excRaised,   \* the exception that ended the generator, "" if none
    acc,         \* the branchnames and entryvars lists of a call of _compilefcns
    requested,   \* the requirements that call has satisfied, in order
    fetched      \* the outcomes of _argfcn for them, in order

vars ==
    <<numentries, source, chain, defineArg, defineExc, args, gen, pc, frame, delivered, tasks, yielded, excRaised,
      acc, requested, fetched>>

\* the variables of a call of _compilefcns followed step by step
compileVars == <<acc, requested, fetched>>

Args(exprs, outputtype, calcexecutor) == [exprs |-> exprs, outputtype |-> outputtype, calcexecutor |-> calcexecutor]

NoArgs == Args(Exprs("list", <<>>), "dict", "None")

Frame(dictnames, compiled, branchnames, entryvars, excinfos, arrays, results) ==
    [dictnames |-> dictnames, compiled |-> compiled, branchnames |-> branchnames, entryvars |-> entryvars,
     excinfos |-> excinfos, arrays |-> arrays, results |-> results]

\* excinfos is "None", "tuple" (the empty tuple of the sequential mode) or
\* "map" (what calcexecutor.map returned: the outcomes of tasks)
NoFrame == Frame(<<>>, <<>>, <<>>, {}, "None", <<>>, <<>>)

Task(done, outcome) == [done |-> done, outcome |-> outcome]

Init ==
    /\ numentries \in 0..MaxEntries
    /\ source = NoSource
    /\ chain = <<>>
    /\ defineArg = Exprs("dict", <<>>)
    /\ defineExc = ""
    /\ args = NoArgs
    /\ gen = "none"
    /\ pc = ""
    /\ frame = NoFrame
    /\ delivered = 0
    /\ tasks = <<>>
    /\ yielded = <<>>
    /\ excRaised = ""
    /\ acc = Acc(<<>>, {})
    /\ requested = <<>>
    /\ fetched = <<>>

\* ---------------------------------------------------------------- inputs
\* a function of the caller, f(x), that raises on the chunk holding entry e
\* (e = -1: on none)
UserFcn(e) == Fcn("f", <<"x">>, <<>>, <<>>, {e} \cap (0..MaxEntries))

Single(obj) == Exprs("single", <<Item("", obj)>>)

TextInputs ==
    {"x", "i", "x + 1", "r + 1", "c + 1", "x - i", "i - c", "x = 2\nx + 1", "x = x + 1\nx", "",
     "def f(): pass"}

ExprsInputs ==
    {Single(StrObj(t)) : t \in TextInputs}
    \cup {Single(FunObj(UserFcn(e))) : e \in -1..(MaxEntries - 1)}
    \cup {Single(IntObj)}
    \cup {Exprs("dict", <<Item("a", StrObj("x + 1")), Item("b", StrObj("x - 1"))>>)}
    \cup {Exprs("list", <<Item("", StrObj("x")), Item("", FunObj(UserFcn(e)))>>) : e \in 0..(MaxEntries - 1)}
    \cup {Exprs("list", <<>>)}

SourceInputs ==
    {Source(step, start, cfg[1], cfg[2]) :
        step \in 1..MaxStep, start \in {0, 1},
        cfg \in {<<{}, None>>, <<{}, "i">>, <<{<<"r", "c">>}, "i">>}}

OutputTypes == {"dict", "tuple", "namedtuple"}

Executors == {"None", "eager", "async"}

DefineInputs ==
    {Exprs("dict", <<>>),
     Exprs("dict", <<Item("y", StrObj("x * 2"))>>),
     Exprs("dict", <<Item("x + 1", StrObj("x"))>>),
     Exprs("list", <<>>)}

\* ---------------------------------------------------------------- define
\* the tables Define.__init__ fills from the tuples of _tofcns
DefineTables(t) ==
    IF t.exc # "" THEN [exc |-> t.exc, step |-> Step("Define", <<>>)]
    ELSE [exc |-> "",
          step |-> Step("Define", [j \in DOMAIN t.fcns |->
                                      Def(t.fcns[j].dictname, t.fcns[j].fcn, t.fcns[j].requirements)])]

\* Define.__init__(previous, exprs): [exc, step]. _tofcns runs on the step
\* under construction, which has no _compilefcn of its own
Define_init(exprs) ==
    IF exprs.shape # "dict" THEN [exc |-> "TypeError", step |-> Step("Define", <<>>)]
    ELSE IF \E j \in DOMAIN exprs.items : ~ChainStep_isidentifier(exprs.items[j].name)
         THEN [exc |-> "TypeError", step |-> Step("Define", <<>>)]
    ELSE DefineTables(ChainStep_tofcns(Step("Define", <<>>), exprs))

\* the chain after define, given what Define.__init__ did
Defined(exprs, d, src, steps) ==
    /\ defineArg' = exprs
    /\ defineExc' = d.exc
    /\ source' = IF d.exc = "" THEN src ELSE source
    /\ chain' = IF d.exc = "" THEN Append(steps, d.step) ELSE chain

\* TTreeMethods_numba.define: ChainSource(...).define(exprs)
TTreeMethods_numba_define ==
    /\ gen = "none"
    /\ defineExc = ""
    /\ chain = <<>>
    /\ \E src \in SourceInputs, exprs \in DefineInputs :
          Defined(exprs, Define_init(exprs), src, <<Step("ChainSource", <<>>)>>)
    /\ UNCHANGED <<numentries, args, gen, pc, frame, delivered, tasks, yielded, excRaised, compileVars>>

\* ChainStep.define on the last step of the chain: Define(self, exprs)
ChainStep_define ==
    /\ gen = "none"
    /\ defineExc = ""
    /\ chain # <<>>
    /\ Len(chain) - 2 < MaxDefines
    /\ \E exprs \in DefineInputs : Defined(exprs, Define_init(exprs), source, chain)
    /\ UNCHANGED <<numentries, args, gen, pc, frame, delivered, tasks, yielded, excRaised, compileVars>>

\* --------------------------------------------------------------- iterate
\* TTreeMethods_numba.iterate: ChainSource(...).iterate(exprs, outputtype,
\* calcexecutor). iterate holds a yield, so the call runs none of its body
\* and returns a generator
TTreeMethods_numba_iterate ==
    /\ gen = "none"
    /\ defineExc = ""
    /\ chain = <<>>
    /\ \E src \in SourceInputs, exprs \in ExprsInputs, outputtype \in OutputTypes, calcexecutor \in Executors :
          /\ source' = src
          /\ args' = Args(exprs, outputtype, calcexecutor)
    /\ chain' = <<Step("ChainSource", <<>>)>>
    /\ gen' = "created"
    /\ pc' = "L166"
    /\ UNCHANGED <<numentries, defineArg, defineExc, frame, delivered, tasks, yielded, excRaised, compileVars>>

\* ChainStep.iterate on the last step of a chain that define built
ChainStep_iterate ==
    /\ gen = "none"
    /\ defineExc = ""
    /\ chain # <<>>
    /\ \E exprs \in ExprsInputs, outputtype \in OutputTypes, calcexecutor \in Executors :
          args' = Args(exprs, outputtype, calcexecutor)
    /\ gen' = "created"
    /\ pc' = "L166"
    /\ UNCHANGED <<numentries, source, chain, defineArg, defineExc, frame, delivered, tasks, yielded, excRaised, compileVars>>

\* the consumer asks the generator for its next record
Consumer_next ==
    /\ gen \in {"created", "suspended"}
    /\ gen' = "running"
    /\ UNCHANGED <<numentries, source, chain, defineArg, defineExc, args, pc, frame, delivered, tasks, yielded, excRaised, compileVars>>

\* an exception leaves the generator
Raised(type) ==
    /\ gen' = "raised"
    /\ excRaised' = type

HasDuplicates(s) == \E j, h \in DOMAIN s : j # h /\ s[j] = s[h]

\* line 185, given what _compilefcns returned
Iterate_compiled(dictnames, c) ==
    IF c.exc # ""
    THEN Raised(c.exc) /\ UNCHANGED <<pc, frame>>
    ELSE /\ frame' = Frame(dictnames, c.compiled, c.branchnames, c.entryvars, "None", <<>>, <<>>)
         /\ pc' = "L188"
         /\ UNCHANGED <<gen, excRaised>>

\* mutant: the field names are not checked
Iterate_named_NoCheck(fcns, dictnames) ==
    Iterate_compiled(dictnames, ChainStep_compilefcns(source, chain, Len(chain), fcns))

\* lines 168-185, given the tuples of _tofcns and their dictnames
Iterate_named(fcns, dictnames) ==
    IF /\ args.outputtype = "namedtuple"
       /\ \/ \E j \in DOMAIN dictnames : ~ChainStep_isidentifier(dictnames[j])
          \/ HasDuplicates(dictnames)
    THEN Raised("ValueError") /\ UNCHANGED <<pc, frame>>
    ELSE Iterate_compiled(dictnames, ChainStep_compilefcns(source, chain, Len(chain), fcns))

\* mutant: an exception of _tofcns is dropped
Iterate_tofcns_NoRaise(t) == Iterate_named(t.fcns, [j \in DOMAIN t.fcns |-> t.fcns[j].dictname])

\* lines 166-185, given what _tofcns returned
Iterate_tofcns(t) ==
    IF t.exc # ""
    THEN Raised(t.exc) /\ UNCHANGED <<pc, frame>>
    ELSE Iterate_named(t.fcns, [j \in DOMAIN t.fcns |-> t.fcns[j].dictname])

\* lines 166-185: _tofcns, the namedtuple's field names, _compilefcns
Iterate_definitions ==
    /\ gen = "running"
    /\ pc = "L166"
    /\ Iterate_tofcns(ChainStep_tofcns(chain[Len(chain)], args.exprs))
    /\ UNCHANGED <<numentries, source, chain, defineArg, defineExc, args, delivered, tasks, yielded, compileVars>>

\* line 188: the for statement asks source._iterate for the next arrays;
\* the tree looks the branches up when its iteration starts
Iterate_nextchunk ==
    /\ gen = "running"
    /\ pc = "L188"
    /\ IF ~(Range(frame.branchnames) \subseteq TreeBranches)
       THEN Raised("KeyError") /\ UNCHANGED <<pc, frame, delivered>>
       ELSE IF delivered < tree_numchunks(source, numentries)
            THEN /\ delivered' = delivered + 1
                 /\ frame' = [frame EXCEPT !.arrays =
                                 ChainSource_iterate(source, numentries, frame.branchnames,
                                                     Cardinality(frame.entryvars) > 0, delivered + 1)]
                 /\ pc' = "L189"
                 /\ UNCHANGED <<gen, excRaised>>
            ELSE /\ pc' = "L213"
                 /\ UNCHANGED <<gen, excRaised, frame, delivered>>
    /\ UNCHANGED <<numentries, source, chain, defineArg, defineExc, args, tasks, yielded, compileVars>>

\* lines 189 and 213 with excinfos None: nothing to raise or yield yet
Iterate_nothingyet ==
    /\ gen = "running"
    /\ pc \in {"L189", "L213"}
    /\ frame.excinfos = "None"
    /\ IF pc = "L189"
       THEN pc' = "L194" /\ UNCHANGED gen
       ELSE pc' = "end" /\ gen' = "finished"
    /\ UNCHANGED <<numentries, source, chain, defineArg, defineExc, args, frame, delivered, tasks, yielded, excRaised, compileVars>>

\* the outcomes the for statement of lines 190 and 214 goes through
Excinfos == IF frame.excinfos = "map" THEN tasks ELSE <<>>

\* lines 190-191 and 214-215: the first outcome is taken from excinfos (the
\* map hands it over once its task has run) and _delayedraise is called on
\* it: a name the module neither defines nor imports
Iterate_delayedraise ==
    /\ gen = "running"
    /\ pc \in {"L189", "L213"}
    /\ frame.excinfos # "None"
    /\ Excinfos # <<>>
    /\ Excinfos[1].done
    /\ Raised("NameError")
    /\ UNCHANGED <<numentries, source, chain, defineArg, defineExc, args, pc, frame, delivered, tasks, yielded, compileVars>>

\* mutant: the yield after the loop (line 216) is missing
Iterate_yield_NoFinal ==
    /\ gen = "running"
    /\ pc \in {"L189", "L213"}
    /\ frame.excinfos # "None"
    /\ Excinfos = <<>>
    /\ yielded' = IF pc = "L189"
                  THEN Append(yielded, finish(args.outputtype, frame.dictnames, frame.results))
                  ELSE yielded
    /\ gen' = IF pc = "L189" THEN "suspended" ELSE "finished"
    /\ pc' = IF pc = "L189" THEN "L194" ELSE "end"
    /\ UNCHANGED <<numentries, source, chain, defineArg, defineExc, args, frame, delivered, tasks, excRaised, compileVars>>

\* mutant: the result list of the next chunk is made before the yield
Iterate_yield_FreshResults ==
    /\ gen = "running"
    /\ pc \in {"L189", "L213"}
    /\ frame.excinfos # "None"
    /\ Excinfos = <<>>
    /\ yielded' = Append(yielded, finish(args.outputtype, frame.dictnames, frame.results))
    /\ frame' = [frame EXCEPT !.results = [i \in DOMAIN frame.compiled |-> NoneValue]]
    /\ gen' = "suspended"
    /\ pc' = IF pc = "L189" THEN "L194" ELSE "end"
    /\ UNCHANGED <<numentries, source, chain, defineArg, defineExc, args, delivered, tasks, excRaised, compileVars>>

\* lines 192 and 216: yield finish(results)
Iterate_yield ==
    /\ gen = "running"
    /\ pc \in {"L189", "L213"}
    /\ frame.excinfos # "None"
    /\ Excinfos = <<>>
    /\ yielded' = Append(yielded, finish(args.outputtype, frame.dictnames, frame.results))
    /\ gen' = "suspended"
    /\ pc' = IF pc = "L189" THEN "L194" ELSE "end"
    /\ UNCHANGED <<numentries, source, chain, defineArg, defineExc, args, frame, delivered, tasks, excRaised, compileVars>>

\* calculate(i) on the arrays and results the generator's variables hold:
\* [excinfo, results]
calculate(i, compiled, arrays, results) ==
    LET out == CallCompiled(compiled[i], arrays)
    IN  IF IsRaise(out) THEN [excinfo |-> out, results |-> results]
        ELSE [excinfo |-> NoneValue, results |-> [results EXCEPT ![i] = out]]

\* for i in range(len(compiled)): uproot.tree._delayedraise(calculate(i)),
\* from i on: [excinfo, results], the excinfo that of the first failure
RECURSIVE CalculateFrom(_, _, _, _)
CalculateFrom(i, compiled, arrays, results) ==
    IF i > Len(compiled) THEN [excinfo |-> NoneValue, results |-> results]
    ELSE LET r == calculate(i, compiled, arrays, results)
         IN  IF IsRaise(r.excinfo) THEN r
             ELSE CalculateFrom(i + 1, compiled, arrays, r.results)

\* calcexecutor.map(calculate, range(len(compiled))) run at once, from i on:
\* [tasks, results]
RECURSIVE MapFrom(_, _, _, _, _)
MapFrom(i, compiled, arrays, results, done) ==
    IF i > Len(compiled) THEN [tasks |-> done, results |-> results]
    ELSE LET r == calculate(i, compiled, arrays, results)
         IN  MapFrom(i + 1, compiled, arrays, r.results, Append(done, Task(TRUE, r.excinfo)))

\* mutant: in sequential mode too the outcome of calculate is kept for later
Iterate_calculate_Captured ==
    /\ gen = "running"
    /\ pc = "L194"
    /\ LET fresh == [i \in DOMAIN frame.compiled |-> NoneValue]
       IN  CASE args.calcexecutor = "None" ->
                  /\ frame' = [frame EXCEPT !.results = CalculateFrom(1, frame.compiled, frame.arrays, fresh).results,
                                            !.excinfos = "tuple"]
                  /\ UNCHANGED tasks
             [] args.calcexecutor = "eager" ->
                  /\ frame' = [frame EXCEPT !.results = MapFrom(1, frame.compiled, frame.arrays, fresh, <<>>).results,
                                            !.excinfos = "map"]
                  /\ tasks' = MapFrom(1, frame.compiled, frame.arrays, fresh, <<>>).tasks
             [] OTHER ->
                  /\ frame' = [frame EXCEPT !.results = fresh, !.excinfos = "map"]
                  /\ tasks' = [i \in DOMAIN frame.compiled |-> Task(FALSE, NoneValue)]
    /\ pc' = "L188"
    /\ UNCHANGED <<numentries, source, chain, defineArg, defineExc, args, gen, excRaised, delivered, yielded, compileVars>>

\* lines 194-211: a new results list, then the outputs one by one, or given
\* to the executor
Iterate_calculate ==
    /\ gen = "running"
    /\ pc = "L194"
    /\ LET fresh == [i \in DOMAIN frame.compiled |-> NoneValue]
       IN  CASE args.calcexecutor = "None" ->
                  LET r == CalculateFrom(1, frame.compiled, frame.arrays, fresh)
                  IN  /\ IF IsRaise(r.excinfo)
                         THEN /\ Raised(r.excinfo.name)
                              /\ frame' = [frame EXCEPT !.results = r.results]
                              /\ UNCHANGED pc
                         ELSE /\ frame' = [frame EXCEPT !.results = r.results, !.excinfos = "tuple"]
                              /\ pc' = "L188"
                              /\ UNCHANGED <<gen, excRaised>>
                      /\ UNCHANGED tasks
             [] args.calcexecutor = "eager" ->
                  LET r == MapFrom(1, frame.compiled, frame.arrays, fresh, <<>>)
                  IN  /\ frame' = [frame EXCEPT !.results = r.results, !.excinfos = "map"]
                      /\ tasks' = r.tasks
                      /\ pc' = "L188"
                      /\ UNCHANGED <<gen, excRaised>>
             [] OTHER ->
                  /\ frame' = [frame EXCEPT !.results = fresh, !.excinfos = "map"]
                  /\ tasks' = [i \in DOMAIN frame.compiled |-> Task(FALSE, NoneValue)]
                  /\ pc' = "L188"
                  /\ UNCHANGED <<gen, excRaised>>
    /\ UNCHANGED <<numentries, source, chain, defineArg, defineExc, args, delivered, yielded, compileVars>>

\* a call of calculate(i) that the executor runs on its own time: it reads
\* arrays and results as the generator's variables are when it runs
Executor_run ==
    /\ gen \in {"running", "suspended"}
    /\ \E i \in DOMAIN tasks :
          /\ ~tasks[i].done
          /\ LET r == calculate(i, frame.compiled, frame.arrays, frame.results)
             IN  /\ tasks' = [tasks EXCEPT ![i] = Task(TRUE, r.excinfo)]
                 /\ frame' = [frame EXCEPT !.results = r.results]
    /\ UNCHANGED <<numentries, source, chain, defineArg, defineExc, args, gen, pc, delivered, yielded, excRaised, compileVars>>

\* the generator returns after the last yield: StopIteration
Iterate_return ==
    /\ gen = "running"
    /\ pc = "end"
    /\ gen' = "finished"
    /\ UNCHANGED <<numentries, source, chain, defineArg, defineExc, args, pc, frame, delivered, tasks, yielded, excRaised, compileVars>>

Next ==
    \/ TTreeMethods_numba_define
    \/ ChainStep_define
    \/ TTreeMethods_numba_iterate
    \/ ChainStep_iterate
    \/ Consumer_next
    \/ Iterate_definitions
    \/ Iterate_nextchunk
    \/ Iterate_nothingyet
    \/ Iterate_delayedraise
    \/ Iterate_yield
    \/ Iterate_calculate
    \/ Executor_run
    \/ Iterate_return

Spec == Init /\ [][Next]_vars

\* ------------------------------------------- _compilefcns, step by step
\* what Define.__init__ (lines 235-237) stores for name, given the tuple
\* _tofcns makes of the text on a step whose _compilefcn is the identity
DefText(name, text) == Def(name, string2fcn(text).fcn, co_varnames(string2fcn(text).fcn))

SourceStep == Step("ChainSource", <<>>)

\* chains given to _satisfy and _argfcn: a source alone, under a plain
\* ChainStep, and under Define steps (one level, two levels, a name defined
\* from itself, two names defined from each other, a name defined twice)
ChainInputs ==
    {<<SourceStep>>,
     <<SourceStep, Step("ChainStep", <<>>)>>,
     <<SourceStep, Step("Define", <<>>)>>,
     <<SourceStep, Step("Define", <<DefText("y", "x * 2")>>)>>,
     <<SourceStep, Step("Define", <<DefText("y", "x * 2")>>), Step("Define", <<DefText("a", "y + 1")>>)>>,
     <<SourceStep, Step("Define", <<DefText("x", "x + 1")>>)>>,
     <<SourceStep, Step("Define", <<DefText("a", "b"), DefText("b", "a")>>)>>,
     <<SourceStep, Step("Define", <<DefText("a", "b")>>), Step("Define", <<DefText("b", "a")>>)>>,
     <<SourceStep, Step("Define", <<DefText("y", "c + 1")>>), Step("Define", <<DefText("y", "x * 2")>>)>>}

RequirementInputs == {"a", "c", "i", "r", "x", "y"}

\* the sources of these chains: those of iterate, and one whose alias leads
\* to a raw column that has the name of the entryvar
ChainSourceInputs == SourceInputs \cup {Source(1, 0, {<<"r", "i">>}, "i")}

InitChain ==
    /\ numentries = MaxEntries
    /\ source \in ChainSourceInputs
    /\ chain \in ChainInputs
    /\ defineArg = Exprs("dict", <<>>)
    /\ defineExc = ""
    /\ args = NoArgs
    /\ gen = "none"
    /\ pc = ""
    /\ frame = NoFrame
    /\ delivered = 0
    /\ tasks = <<>>
    /\ yielded = <<>>
    /\ excRaised = ""
    /\ acc = Acc(<<>>, {})
    /\ requested = <<>>
    /\ fetched = <<>>

iterateVars == <<numentries, source, chain, defineArg, defineExc, args, gen, pc, frame, delivered, tasks, yielded, excRaised>>

\* lines 134-136: self._satisfy(requirement, branchnames, entryvars) for
\* one more requirement
Compilefcns_satisfy ==
    /\ fetched = <<>>
    /\ Len(requested) < MaxRequests
    /\ \E requirement \in RequirementInputs :
          /\ acc' = satisfy(source, chain, Len(chain), requirement, acc)
          /\ requested' = Append(requested, requirement)
    /\ UNCHANGED <<iterateVars, fetched>>

\* lines 143-147: self._argfcn(requirement, branchnames) for the next
\* requirement, after all were satisfied; an exception ends the call
Compilefcns_argfcn ==
    /\ Len(fetched) < Len(requested)
    /\ \A j \in DOMAIN fetched : fetched[j].exc = ""
    /\ fetched' = Append(fetched, argfcn(source, chain, Len(chain), requested[Len(fetched) + 1], acc.branchnames))
    /\ UNCHANGED <<iterateVars, acc, requested>>

NextChain ==
    \/ Compilefcns_satisfy
    \/ Compilefcns_argfcn

SpecChain == InitChain /\ [][NextChain]_vars

\* ------------------------------------------------------- claims: helpers
\* the definitions of iterate (lines 166-185) are done, without an error
Started == gen \notin {"none", "created"} /\ pc # "L166"

Sequential == args.calcexecutor = "None"

\* the tree has every branch asked for
KnownBranches == Range(frame.branchnames) \subseteq TreeBranches

NumChunks == tree_numchunks(source, numentries)

\* the arrays of the j-th chunk of the source
ChunkArrays(j) ==
    ChainSource_iterate(source, numentries, frame.branchnames, Cardinality(frame.entryvars) > 0, j)

\* what output i evaluates to on the j-th chunk
Outcome(i, j) == CallCompiled(frame.compiled[i], ChunkArrays(j))

NeverFails == \A j \in 1..NumChunks : \A i \in DOMAIN frame.compiled : ~IsRaise(Outcome(i, j))

\* the record of the j-th chunk
RecordOf(j) == finish(args.outputtype, frame.dictnames, [i \in DOMAIN frame.compiled |-> Outcome(i, j)])

\* ------------------------------------------------------------------- C1
\* C1: in sequential mode (calcexecutor=None), over a source that delivers
\* k chunks and with evaluators that never fail, the generator raises
\* nothing, the m-th record it yields is the one computed from the m-th
\* chunk, and when it is exhausted it has yielded exactly k records (none
\* when k = 0).
C1_SequentialRecords ==
    (Started /\ Sequential /\ KnownBranches /\ NeverFails) =>
        /\ gen # "raised"
        /\ Len(yielded) <= NumChunks
        /\ \A m \in DOMAIN yielded : yielded[m] = RecordOf(m)
        /\ gen = "finished" => Len(yielded) = NumChunks

\* 3 entries in steps of 2: two records, of 2 and of 1 entries, in order
C1_Witness ==
    /\ Started /\ Sequential /\ KnownBranches /\ NeverFails
    /\ gen = "finished"
    /\ numentries = 3 /\ source.entrystepsize = 2 /\ source.entrystart = 0
    /\ Len(yielded) = 2
    /\ Len(yielded[1].values) = 1
    /\ yielded[1].values[1].kind = "call"
    /\ yielded[1].values[1].args[1].data = <<0, 1>>
    /\ yielded[2].values[1].args[1].data = <<2>>

\* no entries: nothing is yielded and nothing raised
C1_WitnessEmpty ==
    /\ Started /\ Sequential /\ KnownBranches /\ NeverFails
    /\ gen = "finished" /\ NumChunks = 0 /\ yielded = <<>> /\ Len(frame.compiled) = 1

\* ------------------------------------------------------- C2, C3 helpers
\* some output's evaluator raises on the j-th chunk
FailsOn(j) == \E i \in DOMAIN frame.compiled : IsRaise(Outcome(i, j))

\* the first output whose evaluator raises on the j-th chunk, and the type
\* of the exception it raises
FirstFailure(j) ==
    CHOOSE i \in DOMAIN frame.compiled :
        IsRaise(Outcome(i, j)) /\ \A h \in 1..(i - 1) : ~IsRaise(Outcome(h, j))

FailureOn(j) == Outcome(FirstFailure(j), j).name

\* N is the first chunk some evaluator raises on
FirstFailingChunk(N) == N \in 1..NumChunks /\ FailsOn(N) /\ \A j \in 1..(N - 1) : ~FailsOn(j)

\* the generator is over: exhausted, or ended by an exception
Over == gen \in {"finished", "raised"}

\* what the consumer sees when chunk N is the first to fail: the records of
\* chunks 1..N-1 and then the evaluator's exception, nothing of chunk N on
FailsAt(N) ==
    /\ Len(yielded) <= N - 1
    /\ \A m \in DOMAIN yielded : yielded[m] = RecordOf(m)
    /\ Over => /\ gen = "raised"
               /\ excRaised = FailureOn(N)
               /\ Len(yielded) = N - 1

\* ------------------------------------------------------------------- C2
\* C2 (as claimed, for every mode): when an evaluator first raises on chunk
\* N of k, N < k, the generator yields the records of chunks 1..N-1, then
\* raises that exception, and yields no record of chunk N or later.
C2_RaisesAtChunk ==
    (Started /\ KnownBranches) =>
        \A N \in 1..(NumChunks - 1) : FirstFailingChunk(N) => FailsAt(N)

\* C2, sequential mode only: there the claim holds
C2_RaisesAtChunk_Sequential == Sequential => C2_RaisesAtChunk

\* an evaluator raised on chunk 2 of 3 after record 1 was yielded
C2_Witness_Sequential ==
    /\ Started /\ KnownBranches /\ Sequential
    /\ NumChunks = 3 /\ FirstFailingChunk(2)
    /\ gen = "raised" /\ excRaised = "ZeroDivisionError"
    /\ Len(yielded) = 1 /\ delivered = 2

\* ------------------------------------------------------------------- C3
\* C3 (as claimed, for both modes): when an evaluator raises on the final
\* chunk, that exception reaches the consumer once the source has delivered
\* all its chunks; it is not swallowed, and the final chunk's record is
\* never yielded.
C3_RaisesAtFinalChunk ==
    (Started /\ KnownBranches /\ NumChunks >= 1 /\ FirstFailingChunk(NumChunks)) =>
        /\ FailsAt(NumChunks)
        /\ gen = "raised" => delivered = NumChunks

\* C3, sequential mode only: there the claim holds
C3_RaisesAtFinalChunk_Sequential == Sequential => C3_RaisesAtFinalChunk

C3_Witness_Sequential ==
    /\ Started /\ KnownBranches /\ Sequential
    /\ NumChunks = 2 /\ FirstFailingChunk(2)
    /\ gen = "raised" /\ excRaised = "ZeroDivisionError"
    /\ Len(yielded) = 1 /\ delivered = 2

\* ------------------------------------------------------------------- C8
\* C8 (as claimed): with a calcexecutor and evaluators that never fail the
\* consumer sees what it sees without one: no exception, the m-th record
\* that of the m-th chunk, and as many records as chunks at exhaustion.
C8_ExecutorSameRecords ==
    (Started /\ ~Sequential /\ KnownBranches /\ NeverFails) =>
        /\ gen # "raised"
        /\ Len(yielded) <= NumChunks
        /\ \A m \in DOMAIN yielded : yielded[m] = RecordOf(m)
        /\ gen = "finished" => Len(yielded) = NumChunks

\* ------------------------------------------------------------------- C4
\* C4 (as claimed): define({"y": "x * 2"}) returns a new chain step, on
\* which y is a name that can be required.
C4_DefineReturnsStep ==
    defineArg = Exprs("dict", <<Item("y", StrObj("x * 2"))>>) =>
        /\ defineExc = ""
        /\ Defines(chain[Len(chain)], "y")

\* ------------------------------------------------------------------- C5
\* the first chunk, laid out as the accumulated branchnames, plus the entry
\* index when flagged
Layout == ChainSource_iterate(source, numentries, acc.branchnames, Cardinality(acc.entryvars) > 0, 1)

\* some step of the chain defines the name
DefinedInChain(name) == \E n \in DOMAIN chain : Defines(chain[n], name)

\* the array a requirement that the source resolves stands for
HoldsRequirement(requirement, array) ==
    IF requirement = source.entryvar THEN array.kind = "arange"
    ELSE array.kind = "branch" /\ array.name = AliasGet(source.aliases, requirement)

\* C5 (as claimed, for every step type): for every requirement _satisfy
\* completed for, _argfcn with the same branchnames returns a fetcher
\* without an exception, and for a requirement the source resolves the
\* fetcher reads an in-range position of the chunk that holds its column
\* (the entry index for entryvar).
C5_FetcherConsistent ==
    \A j \in DOMAIN fetched :
        /\ fetched[j].exc = ""
        /\ ~DefinedInChain(requested[j]) =>
              /\ fetched[j].index + 1 \in DOMAIN Layout
              /\ HoldsRequirement(requested[j], Layout[fetched[j].index + 1])

\* C5 on the chains where only the source resolves: there the claim holds
C5_FetcherConsistent_Source == (\A j \in DOMAIN requested : ~DefinedInChain(requested[j])) => C5_FetcherConsistent

C5_Witness_Source ==
    /\ Len(chain) = 2 /\ chain[2].type = "Define"
    /\ requested = <<"i", "r">> /\ Len(fetched) = 2
    /\ source.entryvar = "i" /\ source.aliases # {}
    /\ fetched[1].index = 1 /\ fetched[2].index = 0

\* ------------------------------------------------------------------- C6
\* the entry range of the chunk delivered last
LastStart == tree_entrystart(source, delivered)

LastStop == tree_entrystop(source, numentries, delivered)

\* s is the sequence start..stop-1
IsEntrySequence(s, start, stop) ==
    /\ Len(s) = stop - start
    /\ \A k \in DOMAIN s : s[k] = start + k - 1

\* some output requires the entryvar
RequiresEntryvar ==
    \E i \in DOMAIN frame.compiled : \E j \in DOMAIN frame.compiled[i].argfcns :
        co_varnames(frame.compiled[i].fcn)[j] = source.entryvar

\* C6: a requirement equal to entryvar adds no name to the fetch list and
\* sets the entry-index flag; every chunk then ends with the sequence
\* start..stop-1 of its entries, and the fetcher of entryvar reads that last
\* position, index = number of real columns, in whatever order entryvar and
\* the columns were required.
C6_EntryvarLast ==
    (Started /\ source.entryvar # None) =>
        /\ source.entryvar \notin Range(frame.branchnames)
        /\ RequiresEntryvar <=> frame.entryvars # {}
        /\ \A i \in DOMAIN frame.compiled : \A j \in DOMAIN frame.compiled[i].argfcns :
              co_varnames(frame.compiled[i].fcn)[j] = source.entryvar =>
                  /\ frame.compiled[i].argfcns[j].exc = ""
                  /\ frame.compiled[i].argfcns[j].index = Len(frame.branchnames)
        /\ (delivered >= 1 /\ RequiresEntryvar) =>
              /\ Len(frame.arrays) = Len(frame.branchnames) + 1
              /\ frame.arrays[Len(frame.arrays)].kind = "arange"
              /\ IsEntrySequence(frame.arrays[Len(frame.arrays)].data, LastStart, LastStop)
              /\ \A b \in DOMAIN frame.branchnames : frame.arrays[b].kind = "branch"
        /\ (delivered >= 1 /\ ~RequiresEntryvar) => Len(frame.arrays) = Len(frame.branchnames)

\* "x - i" is fcn(i, x): entryvar is required first, the column second;
\* chunk [1, 3)
C6_Witness ==
    /\ Started /\ source.entryvar = "i"
    /\ args.exprs = Single(StrObj("x - i"))
    /\ frame.branchnames = <<"x">>
    /\ frame.compiled[1].argfcns = <<Argfcn("", 1), Argfcn("", 0)>>
    /\ source.entrystart = 1 /\ source.entrystepsize = 2 /\ numentries = 3
    /\ delivered = 1
    /\ frame.arrays[2].data = <<1, 2>>
    /\ Len(yielded) = 1

\* "i - c" is fcn(c, i): the column is required first, entryvar second
C6_Witness_ColumnFirst ==
    /\ Started /\ source.entryvar = "i"
    /\ args.exprs = Single(StrObj("i - c"))
    /\ frame.branchnames = <<"c">>
    /\ frame.compiled[1].argfcns = <<Argfcn("", 0), Argfcn("", 1)>>
    /\ delivered = 2
    /\ frame.arrays[2].data = <<2>>

\* ------------------------------------------------------------------- C7
\* the run over the alias: the text "r + 1" on a source with aliases {r: c}
Aliased ==
    /\ Started
    /\ Len(chain) = 1
    /\ args.exprs = Single(StrObj("r + 1"))
    /\ source.aliases = {<<"r", "c">>}

\* the same text written over c, on the same source without the alias
DirectSource == [source EXCEPT !.aliases = {}]

DirectFcns == ChainStep_tofcns(SourceStep, Single(StrObj("c + 1"))).fcns

DirectCompiled == ChainStep_compilefcns(DirectSource, <<SourceStep>>, 1, DirectFcns)

DirectArrays(j) ==
    ChainSource_iterate(DirectSource, numentries, DirectCompiled.branchnames,
                        Cardinality(DirectCompiled.entryvars) > 0, j)

DirectRecord(j) ==
    finish(args.outputtype, [i \in DOMAIN DirectFcns |-> DirectFcns[i].dictname],
           [i \in DOMAIN DirectCompiled.compiled |-> CallCompiled(DirectCompiled.compiled[i], DirectArrays(j))])

\* C7 (as claimed): the aliased run requests the same fetch list and yields
\* the same records as the direct run.
C7_AliasSameRecords ==
    Aliased =>
        /\ frame.branchnames = DirectCompiled.branchnames
        /\ \A m \in DOMAIN yielded : yielded[m] = DirectRecord(m)

\* C7 (amended): the aliased run requests the same fetch list and yields
\* records of the same values in the same order, as many as the direct run;
\* the records are the same ones when they carry no names (tuple), and a
\* dict record is keyed by the text as written.
C7_AliasSameValues ==
    Aliased =>
        /\ frame.branchnames = DirectCompiled.branchnames
        /\ frame.entryvars = DirectCompiled.entryvars
        /\ \A m \in DOMAIN yielded :
              /\ yielded[m].values = DirectRecord(m).values
              /\ args.outputtype = "tuple" => yielded[m] = DirectRecord(m)
              /\ args.outputtype = "dict" =>
                    yielded[m].names = <<"r + 1">> /\ DirectRecord(m).names = <<"c + 1">>
        /\ gen = "finished" => Len(yielded) = tree_numchunks(DirectSource, numentries)

C7_Witness ==
    /\ Aliased
    /\ gen = "finished"
    /\ args.outputtype = "dict"
    /\ frame.branchnames = <<"c">>
    /\ Len(yielded) = 2
    /\ yielded[2].names = <<"r + 1">>
    /\ yielded[2].values = DirectRecord(2).values

\* ------------------------------------------------------- C9, C10 helpers
\* what _tofcns makes of the arguments of iterate
Tofcns == ChainStep_tofcns(chain[Len(chain)], args.exprs)

\* some output's name is no legal field name
IllegalName ==
    /\ Tofcns.exc = ""
    /\ \E j \in DOMAIN Tofcns.fcns : ~ChainStep_isidentifier(Tofcns.fcns[j].dictname)

\* iterate was called: the generator exists
Called == gen # "none"

\* the generator has not come past its definitions
NotPastDefinitions ==
    /\ gen \in {"created", "running", "raised"}
    /\ gen = "running" => pc = "L166"
    /\ delivered = 0
    /\ yielded = <<>>

\* ------------------------------------------------------------------- C9
\* C9: with outputtype namedtuple and an output whose name is no legal
\* identifier, iterate fails with ValueError, before any chunk is requested
\* from the source and before any record is yielded.
C9_NamedtupleIllegalName ==
    (Called /\ args.outputtype = "namedtuple" /\ IllegalName) =>
        /\ NotPastDefinitions
        /\ gen = "raised" => excRaised = "ValueError"

C9_Witness ==
    /\ args.outputtype = "namedtuple"
    /\ args.exprs = Single(StrObj("x + 1"))
    /\ gen = "raised" /\ excRaised = "ValueError"
    /\ delivered = 0 /\ yielded = <<>>

\* ------------------------------------------------------------------ C10
\* the arguments of iterate hold a definition error: a text with a nested
\* function definition, an empty text, a malformed exprs, an illegal field
\* name for namedtuple
DefinitionError ==
    \/ Tofcns.exc \in {"TypeError", "SyntaxError"}
    \/ args.outputtype = "namedtuple" /\ IllegalName

DefinitionErrorType == IF Tofcns.exc # "" THEN Tofcns.exc ELSE "ValueError"

\* C10 (as claimed): definition errors are raised by the call to iterate
\* itself, so no generator is ever returned for arguments that hold one.
C10_RaisedByCall == gen = "created" => ~DefinitionError

\* C10 (amended): the call to iterate returns a generator whatever its
\* arguments; a definition error is raised when the first record is
\* requested, before any chunk is requested from the source and before any
\* record is yielded.
C10_RaisedAtFirstNext ==
    (Called /\ DefinitionError) =>
        /\ NotPastDefinitions
        /\ gen = "raised" => excRaised = DefinitionErrorType
        /\ excRaised # "" => gen = "raised"

C10_Witness ==
    /\ args.exprs = Single(StrObj("def f(): pass"))
    /\ gen = "raised" /\ excRaised = "TypeError"
    /\ delivered = 0 /\ yielded = <<>>

C10_Witness_Created ==
    /\ args.exprs = Single(StrObj(""))
    /\ gen = "created" /\ excRaised = ""

\* ------------------------------------------------------------------ C11
\* C11 (as claimed): the requirement list derived for an expression is the
\* parameter list of its evaluator (names the text assigns, and local
\* variables of a callable, excluded), so the composed evaluator calls it
\* with as many arguments as it has parameters and no call fails on its
\* argument count.
C11_RequirementsAreParameters ==
    (Called /\ Tofcns.exc = "") =>
        /\ \A j \in DOMAIN Tofcns.fcns : Tofcns.fcns[j].requirements = Tofcns.fcns[j].fcn.params
        /\ Started =>
              /\ \A i \in DOMAIN frame.compiled :
                    Len(frame.compiled[i].argfcns) = Len(frame.compiled[i].fcn.params)
              /\ Sequential => excRaised # "TypeError"

\* C11 on expressions without local variables: there the claim holds
C11_RequirementsAreParameters_NoLocals ==
    (Called /\ Tofcns.exc = "" /\ \A j \in DOMAIN Tofcns.fcns : Tofcns.fcns[j].fcn.locals = <<>>) =>
        C11_RequirementsAreParameters

C11_Witness_NoLocals ==
    /\ Started /\ Sequential
    /\ args.exprs = Single(StrObj("x - i"))
    /\ Tofcns.fcns[1].requirements = <<"i", "x">>
    /\ Len(yielded) = 1

\* ------------------------------------------------------------------ C12
\* exprs is a mapping of names to expressions and outputtype is a mapping
MappingRun ==
    /\ Started
    /\ args.outputtype = "dict"
    /\ args.exprs.shape = "dict"
    /\ args.exprs.items # <<>>
    /\ \A j \in DOMAIN args.exprs.items : IsExpression(args.exprs.items[j].obj)

\* what the expression given under the j-th name evaluates to on chunk m:
\* its own function on the columns of its own requirements
OwnFcn(j) == AsFcn(args.exprs.items[j].obj).fcn

OwnColumn(name, m) ==
    IF name = source.entryvar
    THEN Value("arange", "", Arange(tree_entrystart(source, m), tree_entrystop(source, numentries, m)), <<>>)
    ELSE Value("branch", AliasGet(source.aliases, name),
               Arange(tree_entrystart(source, m), tree_entrystop(source, numentries, m)), <<>>)

OwnValue(j, m) == CallFcn(OwnFcn(j), [k \in DOMAIN OwnFcn(j).params |-> OwnColumn(OwnFcn(j).params[k], m)])

\* C12: with a mapping of names to expressions and a mapping outputtype,
\* every yielded record has exactly the given names as keys, in the
\* mapping's order, and under each name the result of that name's own
\* expression on the record's chunk.
C12_NamesPairedWithValues ==
    MappingRun =>
        \A m \in DOMAIN yielded :
            /\ yielded[m].type = "dict"
            /\ yielded[m].names = [j \in DOMAIN args.exprs.items |-> args.exprs.items[j].name]
            /\ Len(yielded[m].values) = Len(args.exprs.items)
            /\ \A j \in DOMAIN args.exprs.items : yielded[m].values[j] = OwnValue(j, m)

\* {"a": "x + 1", "b": "x - 1"}: two records keyed a, b
C12_Witness ==
    /\ MappingRun
    /\ gen = "finished"
    /\ Len(yielded) = 2
    /\ yielded[2].names = <<"a", "b">>
    /\ yielded[2].values[1].name = "+1"
    /\ yielded[2].values[2].name = "-1"
    /\ yielded[2].values[2].args[1].data = <<2>>

\* ------------------------------------------------------------------ C13
\* C13 (as claimed, for every mode): an exception raised while computing
\* an output for chunk N is not propagated at the point of evaluation; it is
\* re-raised at the start of processing the following chunk, only after
\* chunk N+1 was obtained from the source or the source was exhausted.
C13_DeferredRaise ==
    (Started /\ KnownBranches) =>
        \A N \in 1..NumChunks :
            (FirstFailingChunk(N) /\ gen = "raised") =>
                /\ excRaised = FailureOn(N)
                /\ pc \in {"L189", "L213"}
                /\ IF N < NumChunks THEN delivered = N + 1 ELSE pc = "L213"

\* sequential mode: the exception of chunk 1 of 2 left the generator at the
\* evaluation, with chunk 2 not yet asked for
C13_Witness_Immediate ==
    /\ Started /\ KnownBranches /\ Sequential
    /\ NumChunks = 2 /\ FirstFailingChunk(1)
    /\ gen = "raised" /\ excRaised = "ZeroDivisionError"
    /\ pc = "L194"
    /\ delivered = 1

\* C13 (amended): in sequential mode the exception of chunk N leaves the
\* generator at the point of evaluation, with chunk N the last one obtained
\* from the source and the records of chunks 1..N-1 yielded; with a
\* calcexecutor nothing is raised at the evaluation, only where the
\* outcomes are collected: after the following chunk was obtained, or the
\* source was exhausted.
C13_RaisedWhereEvaluated ==
    (Started /\ KnownBranches) =>
        /\ \A N \in 1..NumChunks :
              (Sequential /\ FirstFailingChunk(N)) =>
                  /\ delivered <= N
                  /\ Len(yielded) <= N - 1
                  /\ gen # "finished"
                  /\ gen = "raised" =>
                        /\ excRaised = FailureOn(N)
                        /\ pc = "L194"
                        /\ delivered = N
                        /\ Len(yielded) = N - 1
        /\ (~Sequential /\ gen = "raised") =>
              /\ pc \in {"L189", "L213"}
              /\ Excinfos # <<>>
              /\ pc = "L189" => delivered >= 2
              /\ pc = "L213" => delivered = NumChunks

\* ------------------------------------------------------------------ C14
\* the chunk the tasks at hand were submitted for: the one before the last
\* delivered when the for statement has since taken the next one
SubmittedFor == IF pc = "L189" THEN delivered - 1 ELSE delivered

\* C14 (as claimed): with a calcexecutor that runs its tasks at any point
\* up to the collection of their outcomes, every task submitted for chunk N
\* reads chunk N's arrays: the outcome of a task that has run, an exception
\* or a value in the result list, is that of its output on chunk N.
C14_TasksReadOwnChunk ==
    (Started /\ KnownBranches /\ ~Sequential /\ tasks # <<>>) =>
        \A i \in DOMAIN tasks :
            tasks[i].done =>
                IF IsRaise(Outcome(i, SubmittedFor))
                THEN tasks[i].outcome = Outcome(i, SubmittedFor)
                ELSE tasks[i].outcome = NoneValue /\ frame.results[i] = Outcome(i, SubmittedFor)

\* C14 for a calcexecutor whose map runs the calls before it returns: there
\* the claim holds
C14_TasksReadOwnChunk_Eager == args.calcexecutor = "eager" => C14_TasksReadOwnChunk

C14_Witness_Eager ==
    /\ Started /\ KnownBranches /\ args.calcexecutor = "eager"
    /\ pc = "L189" /\ delivered = 2
    /\ Len(tasks) = 1 /\ tasks[1].done
    /\ frame.results[1] = Outcome(1, 1)
    /\ frame.results[1] # Outcome(1, 2)

\* ------------------------------------------------------------------ C15
\* the step that resolves a name requested of step n: the first one, from
\* n toward the source, whose mapping defines it; the source (step 1) when
\* none does
ResolvedBy(n, name) ==
    IF \E k \in 2..n : Defines(chain[k], name)
    THEN CHOOSE k \in 2..n : Defines(chain[k], name) /\ \A h \in (k + 1)..n : ~Defines(chain[h], name)
    ELSE 1

\* the raw columns a name requested of step n stands for, and whether it
\* needs the entry index
RECURSIVE Columns(_, _)
Columns(n, name) ==
    IF ResolvedBy(n, name) = 1
    THEN IF name = source.entryvar THEN {} ELSE {AliasGet(source.aliases, name)}
    ELSE UNION {Columns(ResolvedBy(n, name) - 1, r) :
                    r \in Range(DefOf(chain[ResolvedBy(n, name)], name).requirements)}

RECURSIVE NeedsEntry(_, _)
NeedsEntry(n, name) ==
    IF ResolvedBy(n, name) = 1 THEN name = source.entryvar
    ELSE \E r \in Range(DefOf(chain[ResolvedBy(n, name)], name).requirements) :
            NeedsEntry(ResolvedBy(n, name) - 1, r)

\* C15: a requested name is resolved by one step only, the first step from
\* the step asked toward the source that defines it (definitions of the
\* name closer to the source are not used), and a name no step defines is
\* resolved by the source, as a raw column after aliasing or as the entry
\* index.
C15_ResolvedByFirstStep ==
    /\ Range(acc.branchnames) = UNION {Columns(Len(chain), requested[j]) : j \in DOMAIN requested}
    /\ acc.entryvars # {} <=> \E j \in DOMAIN requested : NeedsEntry(Len(chain), requested[j])
    /\ \A j \in DOMAIN fetched :
          ResolvedBy(Len(chain), requested[j]) = 1 =>
              fetched[j] = ChainSource_argfcn(source, requested[j], acc.branchnames)

\* y is defined twice, as "x * 2" by the step asked and as "c + 1" nearer
\* the source: only x is fetched
C15_Witness ==
    /\ Len(chain) = 3
    /\ Defines(chain[2], "y") /\ Defines(chain[3], "y")
    /\ requested = <<"y", "r">>
    /\ source.aliases # {}
    /\ acc.branchnames = <<"x", "c">>
    /\ Len(fetched) = 1

\* ------------------------------------------------------------------ C16
\* the raw columns a name requested of step n stands for, in the order
\* _satisfy comes to them
RECURSIVE ColumnSeq(_, _)
RECURSIVE ColumnSeqAll(_, _)
ColumnSeq(n, name) ==
    IF ResolvedBy(n, name) = 1
    THEN IF name = source.entryvar THEN <<>> ELSE <<AliasGet(source.aliases, name)>>
    ELSE ColumnSeqAll(ResolvedBy(n, name) - 1, DefOf(chain[ResolvedBy(n, name)], name).requirements)

ColumnSeqAll(n, names) ==
    IF names = <<>> THEN <<>> ELSE ColumnSeq(n, Head(names)) \o ColumnSeqAll(n, Tail(names))

IsPrefix(s, t) == Len(s) <= Len(t) /\ \A j \in DOMAIN s : s[j] = t[j]

NoDuplicates(s) == \A j, h \in DOMAIN s : s[j] = s[h] => j = h

\* the fetch list is the columns requested, each at its first request
FirstRequestOrder == acc.branchnames = Dedup(ColumnSeqAll(Len(chain), requested))

\* C16 (as claimed): after any sequence of _satisfy calls the fetch list has
\* no duplicate, never contains the entryvar name, and holds the columns in
\* first-request order (requirements that map to one column share one
\* entry).
C16_FetchListNoEntryvar ==
    /\ NoDuplicates(acc.branchnames)
    /\ source.entryvar \notin Range(acc.branchnames)
    /\ FirstRequestOrder

\* C16 (amended): after any sequence of _satisfy calls the fetch list has
\* no duplicate and holds the columns in first-request order, requirements
\* that map to one column sharing one entry; a _satisfy call never moves a
\* name the list has; a requirement equal to entryvar adds nothing to the
\* list, which holds the entryvar name only as the raw column an alias of
\* another requirement leads to.
C16_FetchList ==
    /\ [](/\ NoDuplicates(acc.branchnames)
          /\ FirstRequestOrder
          /\ source.entryvar \in Range(acc.branchnames) =>
                \E p \in source.aliases : p[1] # source.entryvar /\ p[2] = source.entryvar)
    /\ [][/\ IsPrefix(acc.branchnames, acc'.branchnames)
          /\ (requested' = Append(requested, source.entryvar) /\ ResolvedBy(Len(chain), source.entryvar) = 1) =>
                acc'.branchnames = acc.branchnames /\ acc'.entryvars # {}]_vars

\* r is an alias of c: r and c requested, one entry
C16_Witness ==
    /\ source.aliases = {<<"r", "c">>}
    /\ requested = <<"r", "c">>
    /\ acc.branchnames = <<"c">>
    /\ Len(fetched) = 2
    /\ fetched[1].index = 0 /\ fetched[2].index = 0

\* r is an alias of the raw column i, and i is the entryvar
C16_Witness_EntryvarColumn ==
    /\ source.entryvar = "i"
    /\ requested = <<"r", "i">>
    /\ acc.branchnames = <<"i">>
    /\ acc.entryvars # {}

\* ------------------------------------------------------------------ C17
\* some step defines u by an expression that requires v
Refers(u, v) ==
    \E k \in 2..Len(chain) : Defines(chain[k], u) /\ v \in Range(DefOf(chain[k], u).requirements)

\* the definitions lead from the name back to it, in up to three steps
RefersToItself(u) ==
    \/ Refers(u, u)
    \/ \E v \in Names : Refers(u, v) /\ Refers(v, u)
    \/ \E v, w \in Names : Refers(u, v) /\ Refers(v, w) /\ Refers(w, u)

\* how deep the _satisfy calls nest for a name requested of step n
RECURSIVE SatisfyDepth(_, _)
RECURSIVE SatisfyDepthAll(_, _)
SatisfyDepth(n, name) ==
    IF chain[n].type = "ChainSource" THEN 1
    ELSE IF chain[n].type = "Define" /\ Defines(chain[n], name)
         THEN 1 + SatisfyDepthAll(n - 1, DefOf(chain[n], name).requirements)
    ELSE 1 + SatisfyDepth(n - 1, name)

SatisfyDepthAll(n, names) ==
    IF names = <<>> THEN 0
    ELSE IF SatisfyDepth(n, Head(names)) >= SatisfyDepthAll(n, Tail(names))
         THEN SatisfyDepth(n, Head(names))
         ELSE SatisfyDepthAll(n, Tail(names))

\* C17 (as claimed): resolving a name whose definition requires the name
\* itself, directly or through definitions that refer to each other, never
\* finishes.
C17_SelfReferenceNeverResolves ==
    \A j \in DOMAIN requested : ~(ResolvedBy(Len(chain), requested[j]) > 1 /\ RefersToItself(requested[j]))

\* C17 (amended): resolving such a name finishes: its requirements are
\* asked of the previous step, so the calls nest no deeper than the chain is
\* long, and the name stands for what its requirements are nearer the
\* source (x defined as "x + 1" fetches the raw column x).
C17_SelfReferenceResolves ==
    \A j \in DOMAIN requested :
        (ResolvedBy(Len(chain), requested[j]) > 1 /\ RefersToItself(requested[j])) =>
            /\ SatisfyDepth(Len(chain), requested[j]) <= Len(chain)
            /\ ColumnSeq(Len(chain), requested[j]) # <<>>
            /\ Range(ColumnSeq(Len(chain), requested[j])) \subseteq Range(acc.branchnames)

\* x defined as "x + 1": the source's x is fetched
C17_Witness ==
    /\ Len(chain) = 2 /\ Refers("x", "x")
    /\ source.aliases = {} /\ source.entryvar = None
    /\ requested = <<"x">>
    /\ acc.branchnames = <<"x">>

\* a defined as "b" by one step and b as "a" by the next: a is the source's b
C17_Witness_Mutual ==
    /\ Len(chain) = 3 /\ Refers("a", "b") /\ Refers("b", "a")
    /\ requested = <<"a">>
    /\ acc.branchnames = <<"b">>
    /\ SatisfyDepth(3, "a") = 3

\* ------------------------------------------------------------------ C18
\* the names a text reads before any assignment to them, in evaluation
\* order: an assignment evaluates its value, then binds its target
RECURSIVE ReadBeforeAssigned(_, _)
ReadBeforeAssigned(body, assigned) ==
    IF body = <<>> THEN {}
    ELSE (Range(Head(body).loads) \ assigned)
         \cup ReadBeforeAssigned(Tail(body),
                                 IF Head(body).type = "Assign" THEN assigned \cup {Head(body).target} ELSE assigned)

\* iterate was called on one text that string2fcn accepts
TextRun ==
    /\ Called
    /\ args.exprs.shape = "single"
    /\ args.exprs.items[1].obj.kind = "str"
    /\ string2fcn(args.exprs.items[1].obj.str).exc = ""

\* C18 (as claimed): in string2fcn a name is a parameter of the function
\* made of a text if and only if the text reads it before any assignment to
\* it in evaluation order; "x = x + 1\nx" has the parameter x.
C18_ParametersAreFirstReads ==
    TextRun =>
        Range(string2fcn(args.exprs.items[1].obj.str).fcn.params)
            = ReadBeforeAssigned(ast_parse(args.exprs.items[1].obj.str), {})

\* C18 on the other texts: there the claim holds
C18_ParametersAreFirstReads_Others ==
    (TextRun /\ args.exprs.items[1].obj.str # "x = x + 1\nx") => C18_ParametersAreFirstReads

C18_Witness_Others ==
    /\ TextRun
    /\ args.exprs.items[1].obj.str = "x = 2\nx + 1"
    /\ string2fcn("x = 2\nx + 1").fcn.params = <<>>
    /\ string2fcn("x = 2\nx + 1").fcn.locals = <<"x">>

\* ------------------------------------------------------------------ C19
\* C19: when the record of chunk N is with the consumer (the generator is
\* suspended at its N-th yield) the source has delivered chunks 1..N+1, or
\* 1..N when N is the last chunk; the result list at hand is still that of
\* chunk N, the only one buffered, while the arrays at hand are those of
\* the last chunk delivered; as long as the consumer asks for nothing more,
\* chunk N+2 is not requested.
C19_OneChunkLag ==
    /\ gen = "suspended" =>
          /\ Len(yielded) >= 1
          /\ delivered = Min(Len(yielded) + 1, NumChunks)
          /\ pc = IF Len(yielded) < NumChunks THEN "L194" ELSE "end"
          /\ frame.results = [i \in DOMAIN frame.compiled |-> Outcome(i, Len(yielded))]
          /\ frame.arrays = ChunkArrays(delivered)
          /\ tasks = <<>>
    /\ delivered <= Len(yielded) + 2
    /\ Len(yielded) <= delivered

\* record 1 of 3 is with the consumer: chunk 2 is delivered, chunk 3 is not
C19_Witness ==
    /\ gen = "suspended" /\ Sequential
    /\ NumChunks = 3
    /\ Len(yielded) = 1
    /\ delivered = 2
    /\ Len(frame.compiled) = 1
    /\ frame.results[1] = Outcome(1, 1)
    /\ frame.results[1] # Outcome(1, 2)

====
